---- MODULE Spec2Model ----
(***************************************************************************)
(* Millis AI bridge: the agents store adapter (agent-database.js), the     *)
(* HTTP facade (express routes) and the tool facade (MCP dispatcher).      *)
(* The agents collection is shared by the two facade processes; each       *)
(* process has its own module-level store handle.                          *)
(***************************************************************************)
EXTENDS Integers, Sequences, FiniteSets, TLC

VARIABLES agents, indexes, db, client, pc, inbox, listing, now, last

vars == <<agents, indexes, db, client, pc, inbox, listing, now, last>>

(* ------------------------------ bounds -------------------------------- *)

\* the clock is capped: new Date() takes values 0..MaxTime
MaxTime == 1

\* getAll(skip = 0, limit = 50), and args.limit || 50 in the tool
DefaultLimit == 50

\* a patient phone has at most MaxPhoneLen characters
MaxPhoneLen == 3

\* the upstream lists at most MaxAppointments appointments
MaxAppointments == 2

(* --------------------------- value domains ---------------------------- *)

\* a JavaScript undefined (a field the caller left out), the empty string,
\* and the BSON null that undefined is stored as
UNDEF == "undefined"
EMPTY == ""
NULL == "null"

Facades == {"http", "mcp"}

AgentIds == {"a1", "a2"}
Phones == {"p1", "p2"}
Names == {"n1"}
Prompts == {"q1"}
\* metadata maps: "m0" is the empty map {}
EmptyMeta == "m0"
Metas == {"m0", "m1"}

\* what a caller may put in an optional field: nothing, or a value other
\* than the default
ActiveIn == {UNDEF, "false"}
MetaIn == {UNDEF, "m1"}

\* JavaScript truthiness of a string-or-undefined field: !x
Falsy(x) == x \in {UNDEF, EMPTY}

\* the driver serialises undefined as null (ignoreUndefined is off)
Bson(x) == IF x = UNDEF THEN NULL ELSE x

(* ------------------------ the agents collection ----------------------- *)

\* (mutant) the phoneNumber index is not created
UniqueIndexes_AgentIdOnly == {"agentId"}

\* the unique indexes connectDB creates on the agents collection
UniqueIndexes == {"agentId", "phoneNumber"}

\* (mutant) only the agentId key is checked
DuplicateKey_AgentIdOnly(others, doc, idx) ==
    "agentId" \in idx /\ \E d \in others : d.agentId = doc.agentId

\* E11000: doc would share an indexed key with a document of others
DuplicateKey(others, doc, idx) ==
    \E f \in idx : \E d \in others : d[f] = doc[f]

\* a driver result; error is "" when the call returned
Result(err, matched, upserted, deleted) ==
    [error |-> err, matchedCount |-> matched, upsertedCount |-> upserted,
     deletedCount |-> deleted]

NotInitialized == "Database not initialized"
E11000 == "E11000 duplicate key"

\* getDB: throws when the handle is not set
getDB(handle) == IF handle THEN "" ELSE NotInitialized

\* (mutant) createdAt is written by $set as well
SetFields_ResetsCreatedAt(old, agentData, t) ==
    [agentId |-> old.agentId,
     agentName |-> Bson(agentData.agentName),
     phoneNumber |-> Bson(agentData.phoneNumber),
     agentPrompt |-> Bson(agentData.agentPrompt),
     active |-> agentData.active,
     metadata |-> agentData.metadata,
     createdAt |-> t,
     updatedAt |-> t]

\* (mutant) active and metadata are written on insert only
SetFields_KeepsFlags(old, agentData, t) ==
    [agentId |-> old.agentId,
     agentName |-> Bson(agentData.agentName),
     phoneNumber |-> Bson(agentData.phoneNumber),
     agentPrompt |-> Bson(agentData.agentPrompt),
     active |-> old.active,
     metadata |-> old.metadata,
     createdAt |-> old.createdAt,
     updatedAt |-> t]

\* (mutant) phoneNumber is written on insert only
SetFields_KeepsPhone(old, agentData, t) ==
    [agentId |-> old.agentId,
     agentName |-> Bson(agentData.agentName),
     phoneNumber |-> old.phoneNumber,
     agentPrompt |-> Bson(agentData.agentPrompt),
     active |-> agentData.active,
     metadata |-> agentData.metadata,
     createdAt |-> old.createdAt,
     updatedAt |-> t]

\* the document an upsert of agentData writes over old at time t:
\* $set {...data, updatedAt}, createdAt left as it is
SetFields(old, agentData, t) ==
    [agentId |-> old.agentId,
     agentName |-> Bson(agentData.agentName),
     phoneNumber |-> Bson(agentData.phoneNumber),
     agentPrompt |-> Bson(agentData.agentPrompt),
     active |-> agentData.active,
     metadata |-> agentData.metadata,
     createdAt |-> old.createdAt,
     updatedAt |-> t]

\* the document an upsert inserts: the filter's agentId, $set and $setOnInsert
InsertFields(agentData, t) ==
    [agentId |-> Bson(agentData.agentId),
     agentName |-> Bson(agentData.agentName),
     phoneNumber |-> Bson(agentData.phoneNumber),
     agentPrompt |-> Bson(agentData.agentPrompt),
     active |-> agentData.active,
     metadata |-> agentData.metadata,
     createdAt |-> t,
     updatedAt |-> t]

\* collection.updateOne({agentId}, {$set, $setOnInsert}, {upsert: true})
UpdateOneUpsert(docs, idx, agentData, t) ==
    LET match == {d \in docs : d.agentId = Bson(agentData.agentId)}
    IN  IF match # {}
        THEN LET old == CHOOSE d \in match : TRUE
                 new == SetFields(old, agentData, t)
             IN  IF DuplicateKey(docs \ {old}, new, idx)
                 THEN [docs |-> docs, res |-> Result(E11000, 0, 0, 0)]
                 ELSE [docs |-> (docs \ {old}) \cup {new},
                       res |-> Result("", 1, 0, 0)]
        ELSE LET new == InsertFields(agentData, t)
             IN  IF DuplicateKey(docs, new, idx)
                 THEN [docs |-> docs, res |-> Result(E11000, 0, 0, 0)]
                 ELSE [docs |-> docs \cup {new},
                       res |-> Result("", 0, 1, 0)]

\* Agents.upsert
Agents_upsert(docs, idx, handle, agentData, t) ==
    IF getDB(handle) # ""
    THEN [docs |-> docs, res |-> Result(getDB(handle), 0, 0, 0)]
    ELSE UpdateOneUpsert(docs, idx, agentData, t)

\* collection.findOne(filter on one field): the set holding one matching
\* document, or the empty set for the driver's null
FindOne(docs, f, v) ==
    IF \E d \in docs : d[f] = Bson(v)
    THEN {CHOOSE d \in docs : d[f] = Bson(v)}
    ELSE {}

\* a read's outcome: the error getDB threw ("" for none) and the documents
Read(err, found) == [error |-> err, found |-> found]

\* Agents.getByAgentId
Agents_getByAgentId(docs, handle, agentId) ==
    IF getDB(handle) # "" THEN Read(getDB(handle), {})
    ELSE Read("", FindOne(docs, "agentId", agentId))

\* (mutant) findOne({phoneNumber, active: true})
Agents_getByPhoneNumber_ActiveOnly(docs, handle, phoneNumber) ==
    IF getDB(handle) # "" THEN Read(getDB(handle), {})
    ELSE Read("", FindOne({d \in docs : d.active}, "phoneNumber", phoneNumber))

\* Agents.getByPhoneNumber
Agents_getByPhoneNumber(docs, handle, phoneNumber) ==
    IF getDB(handle) # "" THEN Read(getDB(handle), {})
    ELSE Read("", FindOne(docs, "phoneNumber", phoneNumber))

\* (mutant) find() without the filter
Agents_getAllActive_NoFilter(docs, handle) ==
    IF getDB(handle) # "" THEN Read(getDB(handle), {})
    ELSE Read("", docs)

\* Agents.getAllActive: find({active: true})
Agents_getAllActive(docs, handle) ==
    IF getDB(handle) # "" THEN Read(getDB(handle), {})
    ELSE Read("", {d \in docs : d.active = TRUE})

\* (mutant) a delete that matches nothing throws
Agents_delete_ThrowsWhenAbsent(docs, handle, agentId) ==
    IF getDB(handle) # ""
    THEN [docs |-> docs, res |-> Result(getDB(handle), 0, 0, 0)]
    ELSE LET match == {d \in docs : d.agentId = Bson(agentId)}
         IN  IF match = {}
             THEN [docs |-> docs, res |-> Result("not found", 0, 0, 0)]
             ELSE [docs |-> docs \ {CHOOSE d \in match : TRUE},
                   res |-> Result("", 0, 0, 1)]

\* Agents.delete: deleteOne removes at most one matching document
Agents_delete(docs, handle, agentId) ==
    IF getDB(handle) # ""
    THEN [docs |-> docs, res |-> Result(getDB(handle), 0, 0, 0)]
    ELSE LET match == {d \in docs : d.agentId = Bson(agentId)}
         IN  IF match = {}
             THEN [docs |-> docs, res |-> Result("", 0, 0, 0)]
             ELSE [docs |-> docs \ {CHOOSE d \in match : TRUE},
                   res |-> Result("", 0, 0, 1)]

\* (mutant) $set without updatedAt
Agents_toggleStatus_KeepsUpdatedAt(docs, handle, agentId, active, t) ==
    IF getDB(handle) # ""
    THEN [docs |-> docs, res |-> Result(getDB(handle), 0, 0, 0)]
    ELSE LET match == {d \in docs : d.agentId = Bson(agentId)}
         IN  IF match = {}
             THEN [docs |-> docs, res |-> Result("", 0, 0, 0)]
             ELSE LET old == CHOOSE d \in match : TRUE
                  IN  [docs |-> (docs \ {old}) \cup
                                {[old EXCEPT !.active = active]},
                       res |-> Result("", 1, 0, 0)]

\* Agents.toggleStatus: updateOne({agentId}, {$set: {active, updatedAt}})
Agents_toggleStatus(docs, handle, agentId, active, t) ==
    IF getDB(handle) # ""
    THEN [docs |-> docs, res |-> Result(getDB(handle), 0, 0, 0)]
    ELSE LET match == {d \in docs : d.agentId = Bson(agentId)}
         IN  IF match = {}
             THEN [docs |-> docs, res |-> Result("", 0, 0, 0)]
             ELSE LET old == CHOOSE d \in match : TRUE
                  IN  [docs |-> (docs \ {old}) \cup
                                {[old EXCEPT !.active = active,
                                             !.updatedAt = t]},
                       res |-> Result("", 1, 0, 0)]

\* collection.find().skip(skip).limit(limit).toArray(): the number of
\* documents of a page, and the pages a collection can give; find() without a
\* sort returns the documents in an order the store chooses
PageSize(n, skip, limit) ==
    IF n - skip <= 0 THEN 0 ELSE IF n - skip <= limit THEN n - skip ELSE limit

Pages(docs, skip, limit) ==
    {p \in SUBSET docs
       : Cardinality(p) = PageSize(Cardinality(docs), skip, limit)}

\* Agents.getAll has not counted: no list_agents call is between its two reads
NoListing == [counted |-> FALSE, skip |-> 0, limit |-> 0, total |-> 0]

\* Agents.getAll after its first read: total = await countDocuments()
Counted(docs, skip, limit) ==
    [counted |-> TRUE, skip |-> skip, limit |-> limit,
     total |-> Cardinality(docs)]

(* ----------------------- the store connection ------------------------ *)

\* how one connectDB can go: client.connect() rejects, or one of the three
\* createIndex calls rejects, or all of it succeeds
ConnectOutcomes ==
    {"ok", "connect fails", "createIndex agentId fails",
     "createIndex phoneNumber fails", "createIndex active fails"}

\* connectDB: client is assigned before client.connect(), db before the
\* createIndex calls, and the catch rethrows without resetting either; opened
\* says whether the call made a new MongoClient
connectDB(cl, handle, idx, outcome) ==
    IF handle
    THEN [client |-> cl, db |-> handle, indexes |-> idx, error |-> "", opened |-> FALSE]
    ELSE CASE outcome = "ok" ->
                [opened |-> TRUE, client |-> TRUE, db |-> TRUE,
                 indexes |-> idx \cup UniqueIndexes, error |-> ""]
           [] outcome = "connect fails" ->
                [opened |-> TRUE, client |-> TRUE, db |-> FALSE, indexes |-> idx,
                 error |-> "MongoDB connection error"]
           [] outcome = "createIndex agentId fails" ->
                [opened |-> TRUE, client |-> TRUE, db |-> TRUE, indexes |-> idx,
                 error |-> "MongoDB connection error"]
           [] outcome = "createIndex phoneNumber fails" ->
                [opened |-> TRUE, client |-> TRUE, db |-> TRUE,
                 indexes |-> idx \cup (UniqueIndexes \cap {"agentId"}),
                 error |-> "MongoDB connection error"]
           [] outcome = "createIndex active fails" ->
                [opened |-> TRUE, client |-> TRUE, db |-> TRUE,
                 indexes |-> idx \cup UniqueIndexes,
                 error |-> "MongoDB connection error"]

\* closeDB: if (client) { await client.close(); client = null; db = null }
closeDB(cl, handle) ==
    IF cl THEN [client |-> FALSE, db |-> FALSE]
    ELSE [client |-> cl, db |-> handle]

(* --------------------------- the upstream ----------------------------- *)

\* what one fetch of the upstream backend can come to: no response at all
\* (fetch rejects), or a response with a status and a body that is JSON or not;
\* a JSON body carries a success flag (absent counts as false) and a payload
Unreachable ==
    [reachable |-> FALSE, status |-> 0, json |-> FALSE, success |-> FALSE,
     data |-> NULL]

UpstreamOutcomes ==
    {Unreachable} \cup
    {[reachable |-> TRUE, status |-> st, json |-> FALSE, success |-> FALSE,
      data |-> NULL] : st \in {200, 404, 500}} \cup
    {[reachable |-> TRUE, status |-> st, json |-> TRUE, success |-> f,
      data |-> "u1"] : st \in {200, 404, 500}, f \in BOOLEAN}

\* response.ok
ResponseOk(up) == up.status >= 200 /\ up.status <= 299

\* the parsed body of an upstream response
UpstreamBody(up) == [success |-> up.success, data |-> up.data]

\* res.status(code).json({success: false, error})
ErrorBody(msg) == [success |-> FALSE, error |-> msg]

\* what a handler did: the response it sent and the calls it made, in order
Handled(docs, status, body, calls) ==
    [docs |-> docs, status |-> status, body |-> body, calls |-> calls]

(* --------------------------- the HTTP facade -------------------------- *)

\* (mutant) promptResponse.ok is not looked at
PromptFound_IgnoresStatus(up) == up.reachable /\ up.json /\ up.success

\* the upstream lookup answered, with a success status, a JSON body and a
\* positive flag; a rejected fetch or json() is caught and counts as no answer
PromptFound(up) == up.reachable /\ ResponseOk(up) /\ up.json /\ up.success

\* app.post('/api/get-agent-prompt')
GetAgentPrompt(docs, handle, phoneNumber, up) ==
    IF Falsy(phoneNumber)
    THEN Handled(docs, 400, ErrorBody("Phone number is required"), <<>>)
    ELSE IF PromptFound(up)
    THEN Handled(docs, 200,
                 [success |-> TRUE, source |-> "prompts",
                  agentPrompt |-> up.data],
                 <<"upstream">>)
    ELSE LET r == Agents_getByPhoneNumber(docs, handle, phoneNumber)
         IN  IF r.error # ""
             THEN Handled(docs, 500, ErrorBody(r.error), <<"upstream">>)
             ELSE IF r.found = {}
             THEN Handled(docs, 404, ErrorBody("No agent found"),
                          <<"upstream", "store">>)
             ELSE LET agent == CHOOSE d \in r.found : TRUE
                  IN  Handled(docs, 200,
                              [success |-> TRUE, source |-> "agents",
                               agentId |-> agent.agentId,
                               agentName |-> agent.agentName,
                               phoneNumber |-> agent.phoneNumber,
                               agentPrompt |-> agent.agentPrompt,
                               active |-> agent.active],
                              <<"upstream", "store">>)

\* the routes that forward to the upstream
StatusRelayed == {"POST /api/book-appointment", "POST /api/cancel-appointment"}
PhoneChecked == {"GET /api/doctors", "POST /api/doctors"}
ProxyRoutes ==
    {"GET /api/availability", "POST /api/availability"} \cup PhoneChecked
    \cup StatusRelayed

\* app.get|post('/api/availability'), app.get|post('/api/doctors'),
\* app.post('/api/book-appointment'), app.post('/api/cancel-appointment')
Proxy(docs, route, assignedPhoneNumber, up) ==
    IF route \in PhoneChecked /\ Falsy(assignedPhoneNumber)
    THEN Handled(docs, 400, ErrorBody("assignedPhoneNumber is required"), <<>>)
    ELSE IF ~up.reachable \/ ~up.json
    THEN Handled(docs, 500, ErrorBody("fetch or json failed"), <<"upstream">>)
    ELSE IF route \in StatusRelayed
    THEN Handled(docs, up.status, UpstreamBody(up), <<"upstream">>)
    ELSE Handled(docs, 200, UpstreamBody(up), <<"upstream">>)

\* the record both facades hand to Agents.upsert:
\* active !== undefined ? active : true, metadata || {}
AgentData(args) ==
    [agentId |-> args.agentId,
     agentName |-> args.agentName,
     phoneNumber |-> args.phoneNumber,
     agentPrompt |-> args.agentPrompt,
     active |-> IF args.active # UNDEF THEN args.active = "true" ELSE TRUE,
     metadata |-> IF Falsy(args.metadata) THEN EmptyMeta ELSE args.metadata]

\* (mutant) agentPrompt is not checked
MissingRequired_NoPrompt(body) ==
    Falsy(body.agentId) \/ Falsy(body.agentName) \/ Falsy(body.phoneNumber)

\* !agentId || !agentName || !phoneNumber || !agentPrompt
MissingRequired(body) ==
    Falsy(body.agentId) \/ Falsy(body.agentName)
    \/ Falsy(body.phoneNumber) \/ Falsy(body.agentPrompt)

\* app.post('/api/create-agent')
CreateAgent(docs, idx, handle, body, t) ==
    IF MissingRequired(body)
    THEN Handled(docs, 400, ErrorBody("agentId, agentName, phoneNumber, and agentPrompt are required"), <<>>)
    ELSE LET u == Agents_upsert(docs, idx, handle, AgentData(body), t)
         IN  IF u.res.error # ""
             THEN Handled(u.docs, 500, ErrorBody(u.res.error), <<"store">>)
             ELSE Handled(u.docs, 200,
                          [success |-> TRUE,
                           message |-> IF u.res.upsertedCount > 0
                                       THEN "Created" ELSE "Updated",
                           agentId |-> body.agentId],
                          <<"store">>)

\* agents.map(a => ({agentId, agentName, phoneNumber}))
Listing(found) ==
    {[agentId |-> a.agentId, agentName |-> a.agentName,
      phoneNumber |-> a.phoneNumber] : a \in found}

\* app.get('/api/agents')
ListAgents(docs, handle) ==
    LET r == Agents_getAllActive(docs, handle)
    IN  IF r.error # ""
        THEN Handled(docs, 500, ErrorBody(r.error), <<>>)
        ELSE Handled(docs, 200,
                     [success |-> TRUE, count |-> Cardinality(r.found),
                      agents |-> Listing(r.found)],
                     <<"store">>)

\* app.get('/api/health')
Health(docs, t) ==
    Handled(docs, 200,
            [status |-> "ok", service |-> "Millis AI Bridge v2.0",
             timestamp |-> t, backend |-> "API_BASE_URL"],
            <<>>)

\* app.get('/'): the name of the service and the list of its routes
Root(docs) ==
    Handled(docs, 200,
            [service |-> "Millis AI Webhook Bridge", version |-> "2.0.0",
             endpoints |-> {"POST /api/get-agent-prompt",
                            "POST /api/create-agent", "GET /api/agents",
                            "GET /api/health"} \cup ProxyRoutes],
            <<>>)

(* --------------------------- the tool facade -------------------------- *)

\* no request sent to the upstream
NoSend == [endpoint |-> "none", params |-> {}]

\* a tool result, {content: [{type: 'text', text: JSON.stringify(payload)}]}:
\* one text item holding the serialised payload; sent is the request the case
\* made to the upstream
ToolResult(docs, payload, calls) ==
    [docs |-> docs, status |-> 0, body |-> payload, calls |-> calls,
     content |-> <<[type |-> "text", text |-> payload]>>, sent |-> NoSend]

\* (mutant) the dispatcher has no catch of its own: the error leaves the
\* handler and the transport answers with a protocol error, without content
OuterCatch_Rethrows(docs, err, calls) ==
    [docs |-> docs, status |-> 0, body |-> [fault |-> err], calls |-> calls,
     content |-> <<>>, sent |-> NoSend]

\* the catch around the switch: whatever a case throws becomes the payload
\* {success: false, error: error.message, stack}
OuterCatch(docs, err, calls) == ToolResult(docs, ErrorBody(err), calls)

\* case 'create_agent'
create_agent(docs, idx, handle, args, t) ==
    LET u == Agents_upsert(docs, idx, handle, AgentData(args), t)
    IN  IF u.res.error # ""
        THEN OuterCatch(u.docs, u.res.error, <<"store">>)
        ELSE ToolResult(u.docs,
                        [success |-> TRUE,
                         message |-> IF u.res.upsertedCount > 0
                                     THEN "created" ELSE "updated",
                         agentId |-> args.agentId,
                         phoneNumber |-> args.phoneNumber],
                        <<"store">>)

\* case 'list_agents' with activeOnly set
list_agents_active(docs, handle) ==
    LET r == Agents_getAllActive(docs, handle)
    IN  IF r.error # ""
        THEN OuterCatch(docs, r.error, <<>>)
        ELSE ToolResult(docs,
                        [success |-> TRUE, agents |-> r.found, total |-> NULL],
                        <<"store">>)

\* case 'delete_agent'
delete_agent(docs, handle, agentId) ==
    LET u == Agents_delete(docs, handle, agentId)
    IN  IF u.res.error # ""
        THEN OuterCatch(u.docs, u.res.error, <<>>)
        ELSE ToolResult(u.docs,
                        [success |-> u.res.deletedCount > 0,
                         message |-> IF u.res.deletedCount > 0
                                     THEN "deleted" ELSE "not found"],
                        <<"store">>)

\* case 'toggle_agent_status'
toggle_agent_status(docs, handle, agentId, active, t) ==
    LET u == Agents_toggleStatus(docs, handle, agentId, active, t)
    IN  IF u.res.error # ""
        THEN OuterCatch(u.docs, u.res.error, <<>>)
        ELSE ToolResult(u.docs,
                        [success |-> u.res.matchedCount > 0,
                         message |-> IF active THEN "activated"
                                     ELSE "deactivated"],
                        <<"store">>)

\* (mutant) the upstream lookup is tried before the store
get_agent_by_phone_UpstreamFirst(docs, handle, phoneNumber) ==
    LET r == Agents_getByPhoneNumber(docs, handle, phoneNumber)
    IN  IF r.error # ""
        THEN OuterCatch(docs, r.error, <<"upstream">>)
        ELSE IF r.found = {}
        THEN ToolResult(docs, ErrorBody("No agent found for phone number"),
                        <<"upstream", "store">>)
        ELSE LET agent == CHOOSE d \in r.found : TRUE
             IN  ToolResult(docs,
                            [success |-> TRUE, agent |-> agent,
                             prompt |-> agent.agentPrompt],
                            <<"upstream", "store">>)

\* case 'get_agent_by_phone'
get_agent_by_phone(docs, handle, phoneNumber) ==
    LET r == Agents_getByPhoneNumber(docs, handle, phoneNumber)
    IN  IF r.error # ""
        THEN OuterCatch(docs, r.error, <<>>)
        ELSE IF r.found = {}
        THEN ToolResult(docs, ErrorBody("No agent found for phone number"),
                        <<"store">>)
        ELSE LET agent == CHOOSE d \in r.found : TRUE
             IN  ToolResult(docs,
                            [success |-> TRUE, agent |-> agent,
                             prompt |-> agent.agentPrompt],
                            <<"store">>)

\* the tools of the switch: those that use the store and those that call the
\* upstream
StoreTools ==
    {"create_agent", "get_agent_by_phone", "list_agents", "delete_agent",
     "toggle_agent_status"}
UpstreamTools ==
    {"get_prompt_by_phone", "check_doctor_availability", "get_doctors",
     "book_appointment", "cancel_appointment", "find_patient_appointments"}
ToolNames == StoreTools \cup UpstreamTools

\* the text each upstream case puts before error.message in its own catch
FailedTo ==
    [get_prompt_by_phone |-> "Failed to fetch prompt",
     check_doctor_availability |-> "Failed to check availability",
     get_doctors |-> "Failed to fetch doctors",
     book_appointment |-> "Failed to book appointment",
     cancel_appointment |-> "Failed to cancel appointment",
     find_patient_appointments |-> "Failed to find appointments"]

\* the catch inside an upstream case
InnerCatch(docs, name, calls) ==
    ToolResult(docs, ErrorBody(FailedTo[name]), calls)

\* a result of an upstream case that sent a request
UpstreamResult(docs, payload, sent) ==
    [ToolResult(docs, payload, <<"upstream">>) EXCEPT !.sent = sent]

\* (mutant) every optional parameter is appended, given or not
Appended_Always(args, fields) == {<<f, args[f]>> : f \in fields}

\* the parameters a case appends only when the argument is truthy:
\* if (args.x) params.append('x', args.x)
Appended(args, fields) ==
    {<<f, args[f]>> : f \in {g \in fields : ~Falsy(args[g])}}

\* the request each upstream case sends; new URLSearchParams({k: v}) turns an
\* undefined v into the text "undefined"
UpstreamRequest(name, args) ==
    CASE name = "get_prompt_by_phone" ->
            [endpoint |-> "/api/prompts/by-phone",
             params |-> {<<"assignedPhoneNumber", args.assignedPhoneNumber>>}]
      [] name = "check_doctor_availability" ->
            [endpoint |-> "/api/availability",
             params |-> {<<"assignedPhoneNumber", args.assignedPhoneNumber>>}
                        \cup Appended(args, {"date", "specialization",
                                             "doctorId", "doctorName"})]
      [] name = "get_doctors" ->
            [endpoint |-> "/api/doctors/by-phone",
             params |-> {<<"assignedPhoneNumber", args.assignedPhoneNumber>>}
                        \cup Appended(args, {"specialization"})]
      [] name = "book_appointment" ->
            [endpoint |-> "/api/availability/book",
             params |-> {<<"assignedPhoneNumber", args.assignedPhoneNumber>>,
                         <<"patientPhone", args.patientPhone>>,
                         <<"purpose", IF Falsy(args.purpose)
                                      THEN "General appointment"
                                      ELSE args.purpose>>}
                        \cup Appended(args, {"doctorId", "doctorName"})]
      [] name = "cancel_appointment" ->
            [endpoint |-> "/api/availability/cancel",
             params |-> {<<"appointmentId", args.appointmentId>>,
                         <<"patientPhone", args.patientPhone>>}]

\* the five cases that hand the parsed upstream body back as it is; without
\* arguments the first args.x throws inside the try
Relay(docs, name, given, args, up) ==
    IF ~given
    THEN InnerCatch(docs, name, <<>>)
    ELSE IF ~up.reachable \/ ~up.json
    THEN [InnerCatch(docs, name, <<"upstream">>)
          EXCEPT !.sent = UpstreamRequest(name, args)]
    ELSE UpstreamResult(docs, UpstreamBody(up), UpstreamRequest(name, args))

\* a phone number is a sequence of characters; \D is every character that is
\* not one of these
DigitChars == {"0", "1", "2", "3", "4", "5", "6", "7", "8", "9"}
IsDigit(c) == c \in DigitChars

\* args.patientPhone.replace(/\D/g, '')
CleanPhone(patientPhone) == SelectSeq(patientPhone, IsDigit)

\* ['scheduled', 'confirmed'].includes(apt.status)
Upcoming(apt) == apt.status \in {"scheduled", "confirmed"}

\* (mutant) only 'scheduled' passes the filter
KeptAppointments_ScheduledOnly(appointments, includeCompleted) ==
    IF includeCompleted = "true"
    THEN appointments
    ELSE SelectSeq(appointments, LAMBDA apt : apt.status = "scheduled")

\* if (!args.includeCompleted) appointments = appointments.filter(...)
KeptAppointments(appointments, includeCompleted) ==
    IF includeCompleted = "true"
    THEN appointments
    ELSE SelectSeq(appointments, Upcoming)

\* appointments.map(apt => ({id: apt._id, ..., status: apt.status, ...})); the
\* other fields of an appointment are copied in the same way
Summaries(appointments) ==
    [i \in 1..Len(appointments) |->
        [id |-> appointments[i]._id, status |-> appointments[i].status]]

\* case 'find_patient_appointments'; up.listed says whether the parsed body
\* has an appointments list (data.appointments || [])
find_patient_appointments(docs, given, args, up) ==
    IF ~given
    THEN InnerCatch(docs, "find_patient_appointments", <<>>)
    ELSE LET sent == [endpoint |-> "/api/appointments",
                      params |-> {<<"phone", CleanPhone(args.patientPhone)>>}]
         IN  IF ~up.reachable \/ ~up.json
             THEN [InnerCatch(docs, "find_patient_appointments", <<"upstream">>)
                   EXCEPT !.sent = sent]
             ELSE LET appointments ==
                          KeptAppointments(IF up.listed THEN up.appointments
                                           ELSE <<>>,
                                           args.includeCompleted)
                  IN  UpstreamResult(docs,
                                     [success |-> TRUE,
                                      patientPhone |-> args.patientPhone,
                                      count |-> Len(appointments),
                                      appointments |-> Summaries(appointments)],
                                     sent)

\* the handler of CallToolRequestSchema. A call is the tool name, whether the
\* request carries arguments, the arguments, and what the store driver
\* (call.fault: the driver rejects) and the upstream (call.up) will do
CallTool(docs, idx, handle, call, t) ==
    IF call.name \notin ToolNames
    THEN ToolResult(docs, ErrorBody("Unknown tool"), <<>>)
    ELSE IF call.name = "find_patient_appointments"
    THEN find_patient_appointments(docs, call.given, call.args, call.up)
    ELSE IF call.name \in UpstreamTools
    THEN Relay(docs, call.name, call.given, call.args, call.up)
    ELSE IF ~call.given
    THEN OuterCatch(docs, "Cannot read properties of undefined", <<>>)
    ELSE IF call.fault /\ handle
    THEN OuterCatch(docs, "store error", <<"store">>)
    ELSE CASE call.name = "create_agent" ->
                create_agent(docs, idx, handle, call.args, t)
           [] call.name = "get_agent_by_phone" ->
                get_agent_by_phone(docs, handle, call.args.phoneNumber)
           [] call.name = "list_agents" ->
                list_agents_active(docs, handle)
           [] call.name = "delete_agent" ->
                delete_agent(docs, handle, call.args.agentId)
           [] call.name = "toggle_agent_status" ->
                toggle_agent_status(docs, handle, call.args.agentId,
                                    call.args.active, t)

(* ------------------------------ requests ------------------------------ *)

\* a POST /api/create-agent body with every required field given
ValidCreateBodies ==
    [agentId : AgentIds, agentName : Names, phoneNumber : Phones,
     agentPrompt : Prompts, active : ActiveIn, metadata : MetaIn]

RequiredFields == {"agentId", "agentName", "phoneNumber", "agentPrompt"}

\* POST /api/create-agent bodies: the valid ones, and one body per required
\* field left out or empty
HttpCreateBodies ==
    ValidCreateBodies \cup
    {[[agentId |-> "a1", agentName |-> "n1", phoneNumber |-> "p1",
       agentPrompt |-> "q1", active |-> UNDEF, metadata |-> UNDEF]
      EXCEPT ![f] = v] : f \in RequiredFields, v \in {UNDEF, EMPTY}}

\* create_agent arguments that conform to the tool's input schema
ToolCreateArgs ==
    [agentId : AgentIds, agentName : Names, phoneNumber : Phones,
     agentPrompt : Prompts, active : ActiveIn, metadata : MetaIn]

\* create_agent arguments as the dispatcher accepts them: it checks nothing,
\* so phoneNumber or agentPrompt may be left out
ToolCreateArgsUnchecked ==
    [agentId : AgentIds, agentName : Names, phoneNumber : Phones \cup {UNDEF},
     agentPrompt : Prompts \cup {UNDEF}, active : ActiveIn, metadata : MetaIn]

\* the phone numbers a lookup or a doctors request may carry
PhoneIn == Phones \cup {UNDEF, EMPTY}

\* the last request handled: its operation, its arguments, and the response
Request(op, args, h) ==
    [op |-> op, args |-> args, status |-> h.status, body |-> h.body,
     calls |-> h.calls]

\* a request without arguments
NoArgs == [none |-> TRUE]

NoRequest ==
    [op |-> "none", args |-> NoArgs, status |-> 0, body |-> NoArgs,
     calls |-> <<>>]

\* a tool call: the tool name, whether the request carries arguments, the
\* arguments, and what the upstream and the store driver will do with it
Call(name, given, args, up, fault) ==
    [name |-> name, given |-> given, args |-> args, up |-> up, fault |-> fault]

\* no tool call waiting
NoCall == Call("none", FALSE, NoArgs, Unreachable, FALSE)

\* the arguments the store tools are called with
StoreToolArgs(name) ==
    CASE name = "create_agent" -> ToolCreateArgs
      [] name = "get_agent_by_phone" -> [phoneNumber : Phones \cup {UNDEF}]
      [] name = "list_agents" -> {[activeOnly |-> TRUE]}
      [] name = "delete_agent" -> [agentId : AgentIds]
      [] name = "toggle_agent_status" -> [agentId : AgentIds, active : BOOLEAN]

\* calls of the store tools: with each argument record, and for each tool one
\* call without arguments and one that the store driver rejects
StoreCalls ==
    UNION {{Call(n, TRUE, a, Unreachable, FALSE) : a \in StoreToolArgs(n)}
           \cup {Call(n, FALSE, NoArgs, Unreachable, FALSE),
                 Call(n, TRUE, CHOOSE a \in StoreToolArgs(n) : TRUE,
                      Unreachable, TRUE)} : n \in StoreTools}

\* the arguments the relaying tools are called with
RelayToolArgs(name) ==
    CASE name = "get_prompt_by_phone" -> [assignedPhoneNumber |-> "p1"]
      [] name = "check_doctor_availability" ->
            [assignedPhoneNumber |-> "p1", date |-> "d1",
             specialization |-> "s1", doctorId |-> UNDEF, doctorName |-> UNDEF]
      [] name = "get_doctors" ->
            [assignedPhoneNumber |-> "p1", specialization |-> UNDEF]
      [] name = "book_appointment" ->
            [assignedPhoneNumber |-> "p1", patientPhone |-> "p2",
             purpose |-> UNDEF, doctorId |-> "x1", doctorName |-> UNDEF]
      [] name = "cancel_appointment" ->
            [appointmentId |-> "i1", patientPhone |-> "p2"]

\* calls of the relaying tools, under every outcome of the upstream
RelayCalls ==
    UNION {{Call(n, TRUE, RelayToolArgs(n), up, FALSE) : up \in UpstreamOutcomes}
           \cup {Call(n, FALSE, NoArgs, Unreachable, FALSE)}
           : n \in UpstreamTools \ {"find_patient_appointments"}}

\* what the upstream answers to /api/appointments
AppointmentsOutcome(reachable, json, listed, appointments) ==
    [reachable |-> reachable, status |-> IF reachable THEN 200 ELSE 0,
     json |-> json, listed |-> listed, appointments |-> appointments]

Statuses == {"scheduled", "confirmed", "completed"}
Appointments == [_id : {"i1", "i2"}, status : Statuses]

\* the sequences over S of length at most n
SeqsUpTo(S, n) == UNION {[1..k -> S] : k \in 0..n}

\* calls of find_patient_appointments, a few of them
FindCallsFew ==
    {Call("find_patient_appointments", TRUE,
          [patientPhone |-> <<"2", "-", "5">>, includeCompleted |-> UNDEF],
          up, FALSE)
     : up \in {AppointmentsOutcome(FALSE, FALSE, FALSE, <<>>),
               AppointmentsOutcome(TRUE, FALSE, FALSE, <<>>),
               AppointmentsOutcome(TRUE, TRUE, FALSE, <<>>),
               AppointmentsOutcome(TRUE, TRUE, TRUE,
                                   <<[_id |-> "i1", status |-> "completed"]>>)}}
    \cup {Call("find_patient_appointments", FALSE, NoArgs,
               AppointmentsOutcome(FALSE, FALSE, FALSE, <<>>), FALSE)}

\* a call of a tool the switch does not know
UnknownCalls == {Call("no_such_tool", TRUE, NoArgs, Unreachable, FALSE)}

\* the calls the dispatcher is given
DispatchCalls == StoreCalls \cup RelayCalls \cup FindCallsFew \cup UnknownCalls

\* the characters of a patient phone
PhoneChars == {"2", "5", "-"}

\* calls of find_patient_appointments with every phone, every list of
\* appointments and every includeCompleted
FindCalls ==
    {Call("find_patient_appointments", TRUE,
          [patientPhone |-> ph, includeCompleted |-> ic],
          AppointmentsOutcome(TRUE, TRUE, TRUE, apts), FALSE)
     : ph \in SeqsUpTo(PhoneChars, MaxPhoneLen),
       ic \in {UNDEF, "false", "true"},
       apts \in SeqsUpTo(Appointments, MaxAppointments)}

\* calls of check_doctor_availability with every combination of arguments
\* given, empty and left out
AvailabilityCalls ==
    {Call("check_doctor_availability", TRUE, a, up, FALSE)
     : a \in [assignedPhoneNumber : {"p1", UNDEF},
              date : {"d1", EMPTY, UNDEF},
              specialization : {"s1", EMPTY, UNDEF},
              doctorId : {"x1", EMPTY, UNDEF},
              doctorName : {"dn1", EMPTY, UNDEF}],
       up \in UpstreamOutcomes}

\* the last tool call handled: the call and the result the handler returned
ToolRequest(call, h) ==
    [op |-> call.name, args |-> call, status |-> h.status, body |-> h.body,
     calls |-> h.calls, content |-> h.content, sent |-> h.sent]

\* a facade takes requests from the moment it listens until its process has
\* exited
Accepting(f) == pc[f] \in {"serving", "closing", "closed"}

\* (mutant) the rejection of connectDB is not awaited: the process goes on
Started_Regardless(error) == "connected"

\* what a process does after awaiting connectDB: the HTTP module goes on to
\* register its routes and listen, start() goes on to connect the transport;
\* a rejection ends the module evaluation, or start()
Started(error) == IF error = "" THEN "connected" ELSE "failed"

Signals == {"SIGINT", "SIGTERM"}

\* the tool facade has a handler for SIGINT, which awaits closeDB and then
\* exits; every other signal, and every signal to the HTTP facade, has the
\* default disposition
OnSignal(f, sig) ==
    IF f = "mcp" /\ sig = "SIGINT" THEN "closing" ELSE "exited"

(* ------------------------------- actions ------------------------------ *)

\* both facades have started: connectDB has set the handle of each process
\* and created the indexes of the agents collection
Init ==
    /\ agents = {}
    /\ indexes = UniqueIndexes
    /\ db = [f \in Facades |-> TRUE]
    /\ client = [f \in Facades |-> TRUE]
    /\ pc = [f \in Facades |-> "serving"]
    /\ inbox = NoCall
    /\ listing = NoListing
    /\ now = 0
    /\ last = NoRequest

\* time passes
Tick ==
    /\ now < MaxTime
    /\ now' = now + 1
    /\ UNCHANGED <<agents, indexes, db, client, pc, inbox, listing, last>>

HttpCreateAgent ==
    /\ Accepting("http")
    /\ \E body \in HttpCreateBodies :
        \E h \in {CreateAgent(agents, indexes, db["http"], body, now)} :
            /\ agents' = h.docs
            /\ last' = Request("POST /api/create-agent", body, h)
            /\ UNCHANGED <<indexes, db, client, pc, inbox, listing, now>>

HttpListAgents ==
    /\ Accepting("http")
    /\ \E h \in {ListAgents(agents, db["http"])} :
        /\ last' = Request("GET /api/agents", NoArgs, h)
        /\ UNCHANGED <<agents, indexes, db, client, pc, inbox, listing, now>>

HttpGetAgentPrompt ==
    /\ Accepting("http")
    /\ \E phoneNumber \in PhoneIn, up \in UpstreamOutcomes :
        \E h \in {GetAgentPrompt(agents, db["http"], phoneNumber, up)} :
            /\ last' = Request("POST /api/get-agent-prompt",
                               [phoneNumber |-> phoneNumber, up |-> up], h)
            /\ UNCHANGED <<agents, indexes, db, client, pc, inbox, listing, now>>

HttpProxy ==
    /\ Accepting("http")
    /\ \E route \in ProxyRoutes, phone \in {"p1", UNDEF, EMPTY}, up \in UpstreamOutcomes :
        \E h \in {Proxy(agents, route, phone, up)} :
            /\ last' = Request(route,
                               [assignedPhoneNumber |-> phone, up |-> up], h)
            /\ UNCHANGED <<agents, indexes, db, client, pc, inbox, listing, now>>

HttpHealth ==
    /\ Accepting("http")
    /\ \E h \in {Health(agents, now)} :
        /\ last' = Request("GET /api/health", NoArgs, h)
        /\ UNCHANGED <<agents, indexes, db, client, pc, inbox, listing, now>>

HttpRoot ==
    /\ Accepting("http")
    /\ \E h \in {Root(agents)} :
        /\ last' = Request("GET /", NoArgs, h)
        /\ UNCHANGED <<agents, indexes, db, client, pc, inbox, listing, now>>

ToolCreateAgentWith(argSet) ==
    /\ Accepting("mcp")
    /\ \E args \in argSet :
        \E h \in {create_agent(agents, indexes, db["mcp"], args, now)} :
            /\ agents' = h.docs
            /\ last' = Request("create_agent", args, h)
            /\ UNCHANGED <<indexes, db, client, pc, inbox, listing, now>>

ToolCreateAgent == ToolCreateAgentWith(ToolCreateArgs)

ToolCreateAgentUnchecked == ToolCreateAgentWith(ToolCreateArgsUnchecked)

ToolListAgents ==
    /\ Accepting("mcp")
    /\ \E h \in {list_agents_active(agents, db["mcp"])} :
        /\ last' = Request("list_agents", [activeOnly |-> TRUE], h)
        /\ UNCHANGED <<agents, indexes, db, client, pc, inbox, listing, now>>

ToolDeleteAgent ==
    /\ Accepting("mcp")
    /\ \E agentId \in AgentIds :
        \E h \in {delete_agent(agents, db["mcp"], agentId)} :
            /\ agents' = h.docs
            /\ last' = Request("delete_agent", [agentId |-> agentId], h)
            /\ UNCHANGED <<indexes, db, client, pc, inbox, listing, now>>

ToolToggleStatus ==
    /\ Accepting("mcp")
    /\ \E agentId \in AgentIds, active \in BOOLEAN :
        \E h \in {toggle_agent_status(agents, db["mcp"], agentId, active, now)} :
            /\ agents' = h.docs
            /\ last' = Request("toggle_agent_status",
                               [agentId |-> agentId, active |-> active], h)
            /\ UNCHANGED <<indexes, db, client, pc, inbox, listing, now>>

\* the store operations of the two facades
Next ==
    \/ Tick
    \/ HttpCreateAgent
    \/ HttpListAgents
    \/ ToolCreateAgent
    \/ ToolListAgents
    \/ ToolDeleteAgent
    \/ ToolToggleStatus

Spec == Init /\ [][Next]_vars

\* the store operations with the clock stopped and create_agent called with
\* whatever arguments a client sends
NextTools ==
    \/ HttpCreateAgent
    \/ HttpListAgents
    \/ ToolCreateAgentUnchecked
    \/ ToolListAgents
    \/ ToolDeleteAgent
    \/ ToolToggleStatus

SpecTools == Init /\ [][NextTools]_vars

\* the HTTP facade alone, with its upstream
NextHttp ==
    \/ HttpCreateAgent
    \/ HttpListAgents
    \/ HttpGetAgentPrompt
    \/ HttpProxy
    \/ HttpHealth
    \/ HttpRoot

SpecHttp == Init /\ [][NextHttp]_vars

\* the dispatcher of the tool facade handles one call
ToolCall ==
    /\ Accepting("mcp")
    /\ \E call \in DispatchCalls :
        \E h \in {CallTool(agents, indexes, db["mcp"], call, now)} :
            /\ agents' = h.docs
            /\ last' = ToolRequest(call, h)
            /\ UNCHANGED <<indexes, db, client, pc, inbox, listing, now>>

\* the dispatcher handles the call that has arrived
Dispatch ==
    /\ Accepting("mcp")
    /\ inbox.name # "none"
    /\ \E h \in {CallTool(agents, indexes, db["mcp"], inbox, now)} :
        /\ agents' = h.docs
        /\ last' = ToolRequest(inbox, h)
        /\ inbox' = NoCall
        /\ UNCHANGED <<indexes, db, client, pc, listing, now>>

\* a process awaits connectDB: top-level await in the HTTP module, the first
\* statement of start() in the tool facade
StartConnect(f) ==
    /\ pc[f] = "starting"
    /\ \E outcome \in ConnectOutcomes :
        \E c \in {connectDB(client[f], db[f], indexes, outcome)} :
            /\ client' = [client EXCEPT ![f] = c.client]
            /\ db' = [db EXCEPT ![f] = c.db]
            /\ indexes' = c.indexes
            /\ pc' = [pc EXCEPT ![f] = Started(c.error)]
            /\ UNCHANGED <<agents, inbox, listing, now, last>>

\* app.listen(PORT), or server.connect(new StdioServerTransport())
Listen(f) ==
    /\ pc[f] = "connected"
    /\ pc' = [pc EXCEPT ![f] = "serving"]
    /\ UNCHANGED <<agents, indexes, db, client, inbox, listing, now, last>>

\* a termination signal reaches a running process
Signal(f) ==
    /\ pc[f] \in {"starting", "connected", "serving"}
    /\ \E sig \in Signals : pc' = [pc EXCEPT ![f] = OnSignal(f, sig)]
    /\ UNCHANGED <<agents, indexes, db, client, inbox, listing, now, last>>

\* the SIGINT handler's await closeDB() completes
CloseDB(f) ==
    /\ pc[f] = "closing"
    /\ \E c \in {closeDB(client[f], db[f])} :
        /\ client' = [client EXCEPT ![f] = c.client]
        /\ db' = [db EXCEPT ![f] = c.db]
    /\ pc' = [pc EXCEPT ![f] = "closed"]
    /\ UNCHANGED <<agents, indexes, inbox, listing, now, last>>

\* the SIGINT handler's process.exit(0)
Exit(f) ==
    /\ pc[f] = "closed"
    /\ pc' = [pc EXCEPT ![f] = "exited"]
    /\ UNCHANGED <<agents, indexes, db, client, inbox, listing, now, last>>

\* args.skip || 0, args.limit || 50: a number left out, or 0, is x = 0 here
OrDefault(x, d) == IF x = 0 THEN d ELSE x

\* case 'list_agents' without activeOnly, up to the first await of getAll:
\* getDB, then countDocuments
ToolListAllCount ==
    /\ Accepting("mcp")
    /\ ~listing.counted
    /\ \E skip \in {0, 1}, limit \in {0, 1} :
        IF getDB(db["mcp"]) # ""
        THEN /\ last' = Request("list_agents",
                                [activeOnly |-> FALSE, skip |-> skip,
                                 limit |-> limit],
                                OuterCatch(agents, getDB(db["mcp"]), <<>>))
             /\ UNCHANGED <<agents, indexes, db, client, pc, inbox, listing,
                            now>>
        ELSE /\ listing' = Counted(agents, OrDefault(skip, 0),
                                   OrDefault(limit, DefaultLimit))
             /\ UNCHANGED <<agents, indexes, db, client, pc, inbox, now, last>>

\* the rest of it: find().skip().limit().toArray(), and the result
\* {success: true, agents, total, skip, limit}
ToolListAllFetch ==
    /\ Accepting("mcp")
    /\ listing.counted
    /\ \E page \in Pages(agents, listing.skip, listing.limit) :
        /\ last' = Request("list_agents",
                           [activeOnly |-> FALSE, skip |-> listing.skip,
                            limit |-> listing.limit],
                           ToolResult(agents,
                                      [success |-> TRUE, agents |-> page,
                                       total |-> listing.total,
                                       skip |-> listing.skip,
                                       limit |-> listing.limit],
                                      <<"store", "store">>))
        /\ listing' = NoListing
        /\ UNCHANGED <<agents, indexes, db, client, pc, inbox, now>>

\* list_agents beside the requests that insert and delete
NextListing ==
    \/ ToolListAllCount
    \/ ToolListAllFetch
    \/ HttpCreateAgent
    \/ ToolDeleteAgent

SpecListing == Init /\ [][NextListing]_vars

\* the operations of Agents
AgentsOps ==
    {"upsert", "getByAgentId", "getByPhoneNumber", "getAllActive", "getAll",
     "delete", "toggleStatus"}

\* one call of an operation of Agents, with agent a1: the collection after
\* it, and the error it threw ("" for none); getAll is taken up to its getDB
AgentsCall(op, docs, idx, handle, t) ==
    CASE op = "upsert" ->
            LET u == Agents_upsert(docs, idx, handle,
                                   [agentId |-> "a1", agentName |-> "n1",
                                    phoneNumber |-> "p1", agentPrompt |-> "q1",
                                    active |-> TRUE, metadata |-> EmptyMeta], t)
            IN  [docs |-> u.docs, error |-> u.res.error]
      [] op = "getByAgentId" ->
            [docs |-> docs,
             error |-> Agents_getByAgentId(docs, handle, "a1").error]
      [] op = "getByPhoneNumber" ->
            [docs |-> docs,
             error |-> Agents_getByPhoneNumber(docs, handle, "p1").error]
      [] op = "getAllActive" ->
            [docs |-> docs, error |-> Agents_getAllActive(docs, handle).error]
      [] op = "getAll" ->
            [docs |-> docs, error |-> getDB(handle)]
      [] op = "delete" ->
            LET u == Agents_delete(docs, handle, "a1")
            IN  [docs |-> u.docs, error |-> u.res.error]
      [] op = "toggleStatus" ->
            LET u == Agents_toggleStatus(docs, handle, "a1", FALSE, t)
            IN  [docs |-> u.docs, error |-> u.res.error]

\* a call of an export of agent-database.js by the module f that imports it:
\* what was called, whether the handle was set before, and how it ended
AdapterCall(op, f, had, what, error, opened) ==
    [op |-> op, args |-> [facade |-> f, had |-> had, what |-> what],
     status |-> 0, body |-> [error |-> error, opened |-> opened],
     calls |-> <<>>]

\* connectDB()
CallConnectDB(f) ==
    \E outcome \in ConnectOutcomes :
        \E c \in {connectDB(client[f], db[f], indexes, outcome)} :
            /\ client' = [client EXCEPT ![f] = c.client]
            /\ db' = [db EXCEPT ![f] = c.db]
            /\ indexes' = c.indexes
            /\ last' = AdapterCall("connectDB", f, db[f], outcome, c.error,
                                   c.opened)
            /\ UNCHANGED <<agents, pc, inbox, listing, now>>

\* getDB()
CallGetDB(f) ==
    /\ last' = AdapterCall("getDB", f, db[f], "getDB", getDB(db[f]), FALSE)
    /\ UNCHANGED <<agents, indexes, db, client, pc, inbox, listing, now>>

\* closeDB()
CallCloseDB(f) ==
    /\ \E c \in {closeDB(client[f], db[f])} :
        /\ client' = [client EXCEPT ![f] = c.client]
        /\ db' = [db EXCEPT ![f] = c.db]
    /\ last' = AdapterCall("closeDB", f, db[f], "closeDB", "", FALSE)
    /\ UNCHANGED <<agents, indexes, pc, inbox, listing, now>>

\* Agents.upsert(), Agents.getByAgentId(), ...
CallAgents(f) ==
    \E op \in AgentsOps :
        \E r \in {AgentsCall(op, agents, indexes, db[f], now)} :
            /\ agents' = r.docs
            /\ last' = AdapterCall("Agents", f, db[f], op, r.error, FALSE)
            /\ UNCHANGED <<indexes, db, client, pc, inbox, listing, now>>

\* the tool facade from a running state to its exit, with the HTTP phone
\* lookup beside it
NextDispatch ==
    \/ ToolCall
    \/ HttpGetAgentPrompt
    \/ Signal("mcp")
    \/ CloseDB("mcp")
    \/ Exit("mcp")

SpecDispatch == Init /\ [][NextDispatch]_vars

\* a tool call has arrived at the running tool facade
InitReceived ==
    /\ agents = {}
    /\ indexes = UniqueIndexes
    /\ db = [f \in Facades |-> TRUE]
    /\ client = [f \in Facades |-> TRUE]
    /\ pc = [f \in Facades |-> "serving"]
    /\ inbox \in FindCalls \cup AvailabilityCalls
    /\ listing = NoListing
    /\ now = 0
    /\ last = NoRequest

SpecUpstreamTools == InitReceived /\ [][Dispatch]_vars

\* neither process has started: no handle, and a collection without indexes
InitStarting ==
    /\ agents = {}
    /\ indexes = {}
    /\ db = [f \in Facades |-> FALSE]
    /\ client = [f \in Facades |-> FALSE]
    /\ pc = [f \in Facades |-> "starting"]
    /\ inbox = NoCall
    /\ listing = NoListing
    /\ now = 0
    /\ last = NoRequest

\* the two processes from their start to their exit
NextLifecycle ==
    \/ \E f \in Facades : StartConnect(f)
    \/ \E f \in Facades : Listen(f)
    \/ \E f \in Facades : Signal(f)
    \/ \E f \in Facades : CloseDB(f)
    \/ \E f \in Facades : Exit(f)
    \/ HttpCreateAgent
    \/ HttpListAgents
    \/ ToolListAgents
    \/ ToolDeleteAgent

SpecLifecycle == InitStarting /\ [][NextLifecycle]_vars

\* agent-database.js as a module that imports it may call it, in any order
NextAdapter ==
    \/ \E f \in Facades : CallConnectDB(f)
    \/ \E f \in Facades : CallGetDB(f)
    \/ \E f \in Facades : CallCloseDB(f)
    \/ \E f \in Facades : CallAgents(f)

SpecAdapter == InitStarting /\ [][NextAdapter]_vars

(* ------------------------------- claims ------------------------------- *)

CreateOps == {"POST /api/create-agent", "create_agent"}

\* a request whose handling is the step just taken: every handler sets last,
\* and the steps that leave it alone move the clock or a process
Handling(op) == now' = now /\ pc' = pc /\ last'.op = op

\* some required field of the request is missing or empty
LacksRequired(args) == \E f \in RequiredFields : Falsy(args[f])

\* a stored document without its timestamps
Projection(d) ==
    [agentId |-> d.agentId, agentName |-> d.agentName,
     phoneNumber |-> d.phoneNumber, agentPrompt |-> d.agentPrompt,
     active |-> d.active, metadata |-> d.metadata]

\* the last request was a create that the store accepted
UpsertSucceeded ==
    /\ last.op \in CreateOps
    /\ last.calls = <<"store">>
    /\ last.body.success

\* C1: POST /api/get-agent-prompt with a non-empty phoneNumber calls the
\* upstream first; an upstream success with a positive flag answers with
\* source 'prompts' and the store is not consulted; any upstream failure leads
\* to the store lookup, a hit answering success with source 'agents' and a
\* miss answering 404.
C1_FallbackChain ==
    (last.op = "POST /api/get-agent-prompt" /\ ~Falsy(last.args.phoneNumber))
    => LET up == last.args.up
           positive == up.reachable /\ up.status \in 200..299 /\ up.json
                       /\ up.success
           hit == \E d \in agents : d.phoneNumber = last.args.phoneNumber
       IN  /\ Len(last.calls) >= 1 /\ last.calls[1] = "upstream"
           /\ positive =>
                /\ last.status = 200 /\ last.body.success
                /\ last.body.source = "prompts"
                /\ last.calls = <<"upstream">>
           /\ ~positive =>
                /\ last.calls = <<"upstream", "store">>
                /\ hit => /\ last.status = 200 /\ last.body.success
                          /\ last.body.source = "agents"
                /\ ~hit => last.status = 404 /\ ~last.body.success

C1_Witness ==
    /\ last.op = "POST /api/get-agent-prompt"
    /\ ~last.args.up.reachable
    /\ last.status = 200
    /\ last.body.source = "agents"

\* C2: no two records of the agents collection share an agentId, and no two
\* share a phoneNumber.
C2_UniqueKeys ==
    \A d1 \in agents, d2 \in agents :
        (d1.agentId = d2.agentId \/ d1.phoneNumber = d2.phoneNumber)
        => d1 = d2

C2_Witness ==
    /\ Cardinality(agents) = 2
    /\ last.op \in CreateOps
    /\ last.calls = <<"store">>
    /\ ~last.body.success
    /\ last.body.error = E11000

\* C3: a record's createdAt never changes while the record exists; an upsert
\* the store accepts sets the record's updatedAt to the time of the upsert,
\* and sets createdAt to that time when the agentId was absent.
C3_Timestamps ==
    [][ /\ \A d \in agents : \A e \in agents' :
              e.agentId = d.agentId => e.createdAt = d.createdAt
        /\ (now' = now /\ last'.op \in CreateOps /\ last'.calls = <<"store">>
            /\ last'.body.success)
           => \E e \in agents' :
                /\ e.agentId = last'.args.agentId
                /\ e.updatedAt = now
                /\ (\A d \in agents : d.agentId # e.agentId)
                   => e.createdAt = now ]_vars

C3_Witness ==
    /\ UpsertSucceeded
    /\ \E e \in agents : /\ e.agentId = last.args.agentId
                         /\ e.createdAt < e.updatedAt
                         /\ e.updatedAt = now

\* C4: right after an upsert of a valid record r that the store accepted,
\* getByAgentId(r.agentId) and getByPhoneNumber(r.phoneNumber) each return a
\* record equal to r in every field but the timestamps.
C4_UpsertThenGet ==
    (UpsertSucceeded /\ ~LacksRequired(last.args))
    => LET r == AgentData(last.args)
       IN  /\ {Projection(d) :
                d \in Agents_getByAgentId(agents, TRUE, r.agentId).found} = {r}
           /\ {Projection(d) :
                d \in Agents_getByPhoneNumber(agents, TRUE, r.phoneNumber).found}
              = {r}

C4_Witness ==
    /\ UpsertSucceeded
    /\ last.body.message \in {"Updated", "updated"}
    /\ Cardinality(agents) = 2
    /\ last.args.metadata = UNDEF
    /\ last.args.active = "false"

\* C5: an upsert of a record whose phoneNumber is held by a record with
\* another agentId fails with a uniqueness violation and leaves the
\* collection as it was.
C5_DuplicatePhone ==
    [][ (/\ now' = now /\ last'.op \in CreateOps
         /\ ~LacksRequired(last'.args)
         /\ \E d \in agents : /\ d.phoneNumber = last'.args.phoneNumber
                              /\ d.agentId # last'.args.agentId)
        => /\ ~last'.body.success
           /\ last'.body.error = E11000
           /\ agents' = agents ]_vars

C5_Witness ==
    /\ last.op \in CreateOps
    /\ ~last.body.success
    /\ last.body.error = E11000
    /\ \E d \in agents : d.agentId = last.args.agentId
    /\ \E d \in agents : /\ d.phoneNumber = last.args.phoneNumber
                         /\ d.agentId # last.args.agentId

\* C6: getAllActive returns exactly the records whose active flag is true:
\* GET /api/agents and list_agents with activeOnly list those and no others,
\* and an agent toggleStatus has just deactivated is listed by neither.
C6_ActiveOnly ==
    LET active == {d \in agents : d.active = TRUE}
    IN  /\ Agents_getAllActive(agents, TRUE).found = active
        /\ (last.op = "GET /api/agents" /\ last.status = 200)
           => /\ last.body.agents = Listing(active)
              /\ last.body.count = Cardinality(active)
        /\ (last.op = "list_agents" /\ last.body.success)
           => last.body.agents = active
        /\ (/\ last.op = "toggle_agent_status" /\ last.body.success
            /\ ~last.args.active)
           => /\ \A a \in ListAgents(agents, db["http"]).body.agents :
                    a.agentId # last.args.agentId
              /\ \A a \in list_agents_active(agents, db["mcp"]).body.agents :
                    a.agentId # last.args.agentId

C6_Witness ==
    /\ last.op = "GET /api/agents"
    /\ last.body.count = 1
    /\ Cardinality(agents) = 2

\* C7: delete of an agentId that is not stored returns without an error,
\* reports 'not found' and leaves the collection as it was; delete of a stored
\* agentId removes exactly that record and reports the removal; a second
\* delete of the same id changes nothing.
C7_Delete ==
    [][ Handling("delete_agent")
        => LET id == last'.args.agentId
               stored == {d \in agents : d.agentId = id}
           IN  /\ stored = {}
                  => /\ agents' = agents
                     /\ last'.body = [success |-> FALSE,
                                      message |-> "not found"]
               /\ stored # {}
                  => /\ agents' = agents \ stored
                     /\ Cardinality(stored) = 1
                     /\ last'.body = [success |-> TRUE, message |-> "deleted"]
               /\ Agents_delete(agents', db["mcp"], id)
                  = [docs |-> agents', res |-> Result("", 0, 0, 0)] ]_vars

C7_Witness ==
    /\ last.op = "delete_agent"
    /\ last.body.message = "not found"
    /\ agents # {}

\* C8: a create_agent call whose arguments lack a required field fails with
\* a ValidationError and leaves the collection as it was.
C8_ToolValidation ==
    [][ (Handling("create_agent") /\ LacksRequired(last'.args))
        => /\ agents' = agents
           /\ ~last'.body.success
           /\ last'.body.error = "ValidationError" ]_vars

\* C9: POST /api/create-agent with a required field missing or empty,
\* POST /api/get-agent-prompt without phoneNumber and GET|POST /api/doctors
\* without assignedPhoneNumber answer 400 with success false and a message,
\* make no upstream or store call and leave the collection as it was.
C9_ShapeCheck ==
    [][ LET rejected == /\ last'.status = 400
                        /\ ~last'.body.success
                        /\ last'.body.error # ""
                        /\ last'.calls = <<>>
                        /\ agents' = agents
        IN  /\ (last'.op = "POST /api/create-agent"
                /\ LacksRequired(last'.args)) => rejected
            /\ (last'.op = "POST /api/get-agent-prompt"
                /\ Falsy(last'.args.phoneNumber)) => rejected
            /\ (last'.op \in PhoneChecked
                /\ Falsy(last'.args.assignedPhoneNumber)) => rejected ]_vars

C9_Witness ==
    /\ last.op = "POST /api/create-agent"
    /\ last.args.agentPrompt = UNDEF
    /\ last.status = 400
    /\ agents # {}

\* C10: on the availability, doctors, book-appointment and
\* cancel-appointment routes, when the upstream answers with a parseable
\* body, the status and the body sent to the caller are the upstream's.
C10_RelayVerbatim ==
    (/\ last.op \in ProxyRoutes
     /\ ~(last.op \in PhoneChecked /\ Falsy(last.args.assignedPhoneNumber))
     /\ last.args.up.reachable
     /\ last.args.up.json)
    => /\ last.status = last.args.up.status
       /\ last.body = UpstreamBody(last.args.up)

\* a step in which the dispatcher of the tool facade handles a call
Dispatching == now' = now /\ pc' = pc /\ "content" \in DOMAIN last'

\* the store or upstream call of the case fails, or there is no such case:
\* an unknown tool, a request without arguments, no store handle, a store
\* driver that rejects, a phone number another agent holds, an upstream that
\* does not answer or answers what is not JSON
CallFails(call, docs, handle) ==
    \/ call.name \notin ToolNames
    \/ ~call.given
    \/ call.name \in StoreTools /\ (~handle \/ call.fault)
    \/ /\ call.name = "create_agent"
       /\ \E d \in docs : /\ d.phoneNumber = call.args.phoneNumber
                          /\ d.agentId # call.args.agentId
    \/ call.name \in UpstreamTools /\ (~call.up.reachable \/ ~call.up.json)

\* C11: every tool call, whatever the tool name and whatever the store or the
\* upstream does, returns exactly one content item, of type text, holding the
\* result; when the call fails the result is {success: false, error: message};
\* the handler never lets an error out.
C11_OneTextItem ==
    [][ Dispatching
        => LET content == last'.content
           IN  /\ Len(content) = 1
               /\ content[1].type = "text"
               /\ content[1].text = last'.body
               /\ CallFails(last'.args, agents, db["mcp"])
                  => /\ "error" \in DOMAIN content[1].text
                     /\ content[1].text.success = FALSE
                     /\ content[1].text.error # "" ]_vars

\* a call of a store tool was handled after closeDB had reset the handle
C11_Witness ==
    /\ "content" \in DOMAIN last
    /\ last.op = "delete_agent"
    /\ last.args.given
    /\ ~db["mcp"]
    /\ last.body = ErrorBody(NotInitialized)

\* the k-th smallest of a set of positions
Nth(S, k) == CHOOSE i \in S : Cardinality({j \in S : j <= i}) = k

\* C12: find_patient_appointments asks the upstream for the patient phone with
\* every non-digit removed and the digits in their order; with includeCompleted
\* left out or false it returns exactly the upstream appointments whose status
\* is scheduled or confirmed, in the upstream order, and count is the length of
\* that list; with includeCompleted true it returns every upstream appointment.
C12_FindAppointments ==
    ( /\ last.op = "find_patient_appointments"
      /\ last.args.given
      /\ last.args.up.reachable /\ last.args.up.json /\ last.args.up.listed )
    => LET phone == last.args.args.patientPhone
           upstream == last.args.up.appointments
           digitsAt == {i \in 1..Len(phone) : phone[i] \in DigitChars}
           keptAt == IF last.args.args.includeCompleted = "true"
                     THEN 1..Len(upstream)
                     ELSE {i \in 1..Len(upstream) :
                             upstream[i].status \in {"scheduled", "confirmed"}}
           returned == last.body.appointments
       IN  /\ last.sent.endpoint = "/api/appointments"
           /\ \E q \in [1..Cardinality(digitsAt) -> DigitChars] :
                /\ last.sent.params = {<<"phone", q>>}
                /\ \A k \in 1..Cardinality(digitsAt) :
                     q[k] = phone[Nth(digitsAt, k)]
           /\ last.body.success
           /\ last.body.patientPhone = phone
           /\ last.body.count = Len(returned)
           /\ Len(returned) = Cardinality(keptAt)
           /\ \A k \in 1..Len(returned) :
                /\ returned[k].id = upstream[Nth(keptAt, k)]._id
                /\ returned[k].status = upstream[Nth(keptAt, k)].status

\* a phone with digits around a non-digit, and an upstream list in which a
\* completed appointment comes before a confirmed one, with includeCompleted
\* left out
C12_Witness ==
    /\ last.op = "find_patient_appointments"
    /\ last.args.args.patientPhone = <<"2", "-", "5">>
    /\ last.args.args.includeCompleted = UNDEF
    /\ last.args.up.appointments = <<[_id |-> "i1", status |-> "completed"],
                                     [_id |-> "i2", status |-> "confirmed"]>>
    /\ last.body.count = 1
    /\ last.sent.params = {<<"phone", <<"2", "5">>>>}

AvailabilityFilters == {"date", "specialization", "doctorId", "doctorName"}

\* the last call handled was check_doctor_availability, with arguments
AvailabilityHandled ==
    last.op = "check_doctor_availability" /\ last.args.given

\* the upstream answered the last call with a JSON body, and the tool's result
\* is that body
PayloadRelayed ==
    (last.args.up.reachable /\ last.args.up.json)
    => /\ last.calls = <<"upstream">>
       /\ last.content[1].text = [success |-> last.args.up.success,
                                  data |-> last.args.up.data]

\* C13 (as stated): check_doctor_availability called with assignedPhoneNumber
\* and date forwards exactly those two parameters plus each of specialization,
\* doctorId and doctorName the caller supplied, and no other, and returns the
\* upstream payload unmodified.
C13_ForwardsSupplied ==
    ( /\ AvailabilityHandled
      /\ last.args.args.assignedPhoneNumber # UNDEF
      /\ last.args.args.date # UNDEF )
    => /\ last.sent.endpoint = "/api/availability"
       /\ last.sent.params =
            {<<"assignedPhoneNumber", last.args.args.assignedPhoneNumber>>}
            \cup {<<f, last.args.args[f]>>
                  : f \in {g \in AvailabilityFilters :
                             last.args.args[g] # UNDEF}}
       /\ PayloadRelayed

\* C13 (amended): check_doctor_availability forwards assignedPhoneNumber, and
\* each of date, specialization, doctorId and doctorName exactly when the
\* caller gave it a non-empty value; an empty string is dropped like an
\* argument left out. The upstream payload is returned unmodified.
C13_ForwardsNonEmpty ==
    AvailabilityHandled
    => /\ last.sent.endpoint = "/api/availability"
       /\ last.sent.params =
            {<<"assignedPhoneNumber", last.args.args.assignedPhoneNumber>>}
            \cup {<<f, last.args.args[f]>>
                  : f \in {g \in AvailabilityFilters :
                             last.args.args[g] \notin {UNDEF, EMPTY}}}
       /\ PayloadRelayed

\* a call with a date and a specialization, an empty doctorId and no
\* doctorName, answered by the upstream
C13_Witness ==
    /\ AvailabilityHandled
    /\ last.args.args = [assignedPhoneNumber |-> "p1", date |-> "d1",
                         specialization |-> "s1", doctorId |-> EMPTY,
                         doctorName |-> UNDEF]
    /\ last.args.up.json
    /\ last.sent.params = {<<"assignedPhoneNumber", "p1">>, <<"date", "d1">>,
                           <<"specialization", "s1">>}

\* the facade that handles an operation
FacadeOf(op) == IF op \in ToolNames THEN "mcp" ELSE "http"

\* C14: a facade begins to accept requests only after its connectDB has
\* completed successfully (client and handle set, the indexes created); a
\* facade whose connectDB failed never accepts requests; and no request is
\* handled by a facade that has not finished its start-up, so none is handled
\* without a handle because of it.
C14_ConnectBeforeAccept ==
    [][ \A f \in Facades :
          /\ pc'[f] \in {"connected", "serving"}
             => /\ client'[f] /\ db'[f]
                /\ UniqueIndexes \subseteq indexes'
          /\ pc[f] = "failed" => pc'[f] = "failed"
          /\ ( /\ now' = now /\ pc' = pc
               /\ last'.op # "none" /\ FacadeOf(last'.op) = f )
             => /\ pc[f] \notin {"starting", "connected", "failed"}
                /\ pc[f] = "serving" => db[f] ]_vars

\* the HTTP facade has connected and answered a request; the connectDB of the
\* tool facade has failed after setting its handle
C14_Witness ==
    /\ pc["http"] = "serving"
    /\ last.op = "GET /api/agents" /\ last.status = 200
    /\ pc["mcp"] = "failed" /\ db["mcp"]

\* C15: when a process has exited on a termination signal, closeDB has
\* completed in it: its client and its handle are null.
C15_ReleasedBeforeExit ==
    \A f \in Facades : pc[f] = "exited" => ~client[f] /\ ~db[f]

\* the routes of the HTTP surface
HttpRoutes ==
    {"POST /api/get-agent-prompt", "POST /api/create-agent", "GET /api/agents",
     "GET /api/health", "GET /"} \cup ProxyRoutes

\* C16: the response of every route of the HTTP surface, the health and the
\* root route among them, on success and on error, is a JSON object with a
\* boolean success field.
C16_SuccessEnvelope ==
    last.op \in HttpRoutes
    => /\ "success" \in DOMAIN last.body
       /\ last.body.success \in BOOLEAN

\* C17: toggleStatus on an agentId that exists sets the record's active flag
\* to the value given and its updatedAt to the time of the call, leaves the
\* record's other fields and every other record as they were, and reports a
\* match; on an agentId that does not exist it reports no match and the
\* collection stays as it was.
C17_ToggleFrame ==
    [][ Handling("toggle_agent_status")
        => LET id == last'.args.agentId
               stored == {d \in agents : d.agentId = id}
           IN  /\ stored = {}
                  => /\ agents' = agents
                     /\ ~last'.body.success
               /\ stored # {}
                  => \E old \in stored :
                       /\ agents' =
                            (agents \ {old}) \cup
                            {[agentId |-> old.agentId,
                              agentName |-> old.agentName,
                              phoneNumber |-> old.phoneNumber,
                              agentPrompt |-> old.agentPrompt,
                              metadata |-> old.metadata,
                              createdAt |-> old.createdAt,
                              active |-> last'.args.active,
                              updatedAt |-> now]}
                       /\ last'.body.success ]_vars

\* an agent created earlier has been deactivated beside another agent
C17_Witness ==
    /\ last.op = "toggle_agent_status"
    /\ last.body.success
    /\ ~last.args.active
    /\ Cardinality(agents) = 2
    /\ \E d \in agents : /\ d.agentId = last.args.agentId
                         /\ ~d.active
                         /\ d.updatedAt > d.createdAt

\* the step handles a get_agent_by_phone call that reaches the store: it has
\* arguments, the handle is set and the driver does not reject
LookingUp ==
    /\ Dispatching
    /\ last'.op = "get_agent_by_phone"
    /\ last'.args.given /\ ~last'.args.fault
    /\ db["mcp"]

\* the calls a handler made, as a set
Called(calls) == {calls[i] : i \in 1..Len(calls)}

\* C18: get_agent_by_phone never sends a request to the upstream; when a
\* record with exactly the phone number given is stored it answers success
\* with that record and its agentPrompt, and otherwise success:false 'No agent
\* found'; the HTTP phone lookup calls the upstream before it looks in the
\* store.
C18_LocalOnly ==
    [][ /\ (Dispatching /\ last'.op = "get_agent_by_phone")
           => /\ "upstream" \notin Called(last'.calls)
              /\ last'.sent.endpoint = "none"
              /\ agents' = agents
        /\ LookingUp
           => LET hit == {d \in agents :
                            d.phoneNumber = last'.args.args.phoneNumber}
              IN  /\ last'.calls = <<"store">>
                  /\ hit = {}
                     => last'.body =
                          [success |-> FALSE,
                           error |-> "No agent found for phone number"]
                  /\ hit # {}
                     => \E d \in hit :
                          last'.body = [success |-> TRUE, agent |-> d,
                                        prompt |-> d.agentPrompt]
        /\ ( /\ Handling("POST /api/get-agent-prompt")
             /\ ~Falsy(last'.args.phoneNumber) )
           => /\ last'.calls # <<>>
              /\ last'.calls[1] = "upstream"
              /\ "store" \in Called(last'.calls) => Len(last'.calls) = 2 ]_vars

\* the tool has found a stored record, and asked the store only
C18_Witness ==
    /\ last.op = "get_agent_by_phone"
    /\ last.calls = <<"store">>
    /\ last.body.success
    /\ last.body.agent \in agents
    /\ last.body.prompt = "q1"

C20_DefaultsOverwrite ==
    [][ ( /\ now' = now /\ pc' = pc
          /\ last'.op \in CreateOps
          /\ last'.calls = <<"store">>
          /\ last'.body.success
          /\ \E d \in agents : d.agentId = last'.args.agentId )
        => \E new \in agents' :
             /\ new.agentId = last'.args.agentId
             /\ last'.args.active = UNDEF => new.active = TRUE
             /\ last'.args.metadata = UNDEF => new.metadata = EmptyMeta ]_vars

\* an update that left active and metadata out, of a record created earlier
C20_Witness ==
    /\ UpsertSucceeded
    /\ last.body.message \in {"Updated", "updated"}
    /\ last.args.active = UNDEF /\ last.args.metadata = UNDEF
    /\ \E d \in agents : /\ d.agentId = last.args.agentId
                         /\ d.active /\ d.metadata = EmptyMeta
                         /\ d.updatedAt > d.createdAt

\* C21: the page a getAll call returns never has more records than the total
\* it returns, also when other requests insert and delete between its count
\* and its page fetch; and with skip 0 and a limit of at least the number of
\* stored records the page has exactly total records.
C21_PageWithinTotal ==
    ( /\ last.op = "list_agents"
      /\ ~last.args.activeOnly
      /\ last.body.success )
    => /\ Cardinality(last.body.agents) <= last.body.total
       /\ (last.body.skip = 0 /\ last.body.limit >= Cardinality(agents))
          => Cardinality(last.body.agents) = last.body.total

\* C22: the handle is set exactly from a connectDB that succeeded to the next
\* closeDB. A connectDB that throws leaves the handle unset, so that getDB
\* throws 'Database not initialized' and the next connectDB makes a new
\* client; a connectDB with the handle set returns it without making a
\* client; after closeDB the handle is unset, and without a handle getDB and
\* every operation of Agents fail with 'Database not initialized'.
C22_HandleLifecycle ==
    last.op \in {"connectDB", "getDB", "closeDB", "Agents"}
    => LET f == last.args.facade
       IN  /\ last.op = "connectDB"
              => /\ db[f] <=> last.body.error = ""
                 /\ ~last.args.had => last.body.opened
                 /\ last.args.had => ~last.body.opened /\ last.body.error = ""
           /\ last.op = "closeDB" => ~db[f] /\ ~client[f]
           /\ last.op \in {"getDB", "Agents"}
              => (~db[f] <=> last.body.error = NotInitialized)
====
